---------------------------- MODULE Spec2Model ----------------------------
(***************************************************************************)
(* Figure extraction, normalisation and comparison of the FAB analyser.   *)
(*                                                                         *)
(* Two copies of the engine exist in the repository and both are modelled: *)
(*   agents/analysis_agent.py   (operators prefixed A_)                    *)
(*   tools/extract_and_calc.py  (operators prefixed T_)                    *)
(*                                                                         *)
(* A Python str is a sequence of one-character strings.  A Decimal is a    *)
(* record [kind, neg, coef, exp] whose coefficient is a sequence of        *)
(* decimal digits, most significant first, so that the 12 significant      *)
(* digits of the context fit whatever the width of TLC's integers.       *)
(* The model keeps the numeric value of a Decimal (what == compares), not  *)
(* the trailing zeros of its representation.                               *)
(***************************************************************************)
EXTENDS Integers, Sequences, FiniteSets, TLC

VARIABLES
    s,             \* normalize_number_str: the argument (a str or None)
    normA,         \* ... outcome of agents/analysis_agent.normalize_number_str
    normT,         \* ... outcome of tools/extract_and_calc.normalize_number_str
    text,          \* find_number_in_text: the text argument
    keywords,      \* find_number_in_text: the keywords argument (None = default)
    findA,         \* ... outcome of agents/analysis_agent.find_number_in_text
    findT,         \* ... outcome of tools/extract_and_calc.find_number_in_text
    old,           \* calc_pct_change: first argument
    new,           \* calc_pct_change: second argument
    pctA,          \* ... outcome of agents/analysis_agent.calc_pct_change
    pctT,          \* ... outcome of tools/extract_and_calc.calc_pct_change
    from_docs,     \* CLI: passages retrieved for the from side
    to_docs,       \* CLI: passages retrieved for the to side
    from_results,  \* CLI: candidates of the from side
    to_results,    \* CLI: candidates of the to side
    from_best,     \* CLI: choose_best_extract(from_results)
    to_best,       \* CLI: choose_best_extract(to_results)
    pct,           \* CLI: calc_pct_change(old_val, new_val)
    yoy,           \* CLI: the number printed on the "YoY % change" line
    exit_code,     \* CLI: exit status of the process
    pc,            \* CLI: position in the __main__ block (and in app.run_query)
    from_ex,       \* app.run_query: the extraction kept for the from side
    to_ex,         \* app.run_query: the extraction kept for the to side
    genai,         \* reporting_agent: the google.generativeai module, as it behaves
    answer,        \* app.run_query: what generate_report returned
    llm_calls,     \* reporting_agent: calls made to the LLM by generate_report
    source,        \* infer_year_quarter_from_source: the argument src
    inferred       \* ... its outcome

vars == <<s, normA, normT, text, keywords, findA, findT, old, new, pctA, pctT,
          from_docs, to_docs, from_results, to_results, from_best, to_best, pct, yoy, exit_code, pc,
          from_ex, to_ex, genai, answer, llm_calls, source, inferred>>

-----------------------------------------------------------------------------
(* Python values that are not strings or numbers *)

\* None
None == [kind |-> "None"]

\* a str with the given characters, where the value may also be None
Str(chars) == [kind |-> "str", chars |-> chars]

\* a list with the given items, where the value may also be None
List(items) == [kind |-> "list", items |-> items]

\* an exception that leaves the function
Raised(exc) == [kind |-> "raise", exc |-> exc]

\* the call has not been made yet
Pending == [kind |-> "pending"]

IsRaise(v) == v.kind = "raise"

-----------------------------------------------------------------------------
(* Characters and str methods *)

Digits == {"0", "1", "2", "3", "4", "5", "6", "7", "8", "9"}

DigitVal == [c \in Digits |->
    CASE c = "0" -> 0 [] c = "1" -> 1 [] c = "2" -> 2 [] c = "3" -> 3
      [] c = "4" -> 4 [] c = "5" -> 5 [] c = "6" -> 6 [] c = "7" -> 7
      [] c = "8" -> 8 [] c = "9" -> 9]

LowerLetters == {"a", "b", "c", "d", "e", "f", "g", "h", "i", "j", "k", "l", "m",
                 "n", "o", "p", "q", "r", "s", "t", "u", "v", "w", "x", "y", "z"}

UpperToLower ==
    "A" :> "a" @@ "B" :> "b" @@ "C" :> "c" @@ "D" :> "d" @@ "E" :> "e" @@
    "F" :> "f" @@ "G" :> "g" @@ "H" :> "h" @@ "I" :> "i" @@ "J" :> "j" @@
    "K" :> "k" @@ "L" :> "l" @@ "M" :> "m" @@ "N" :> "n" @@ "O" :> "o" @@
    "P" :> "p" @@ "Q" :> "q" @@ "R" :> "r" @@ "S" :> "s" @@ "T" :> "t" @@
    "U" :> "u" @@ "V" :> "v" @@ "W" :> "w" @@ "X" :> "x" @@ "Y" :> "y" @@
    "Z" :> "z"

UpperLetters == DOMAIN UpperToLower

\* str.lower() on one character
LowerChar(c) == IF c \in UpperLetters THEN UpperToLower[c] ELSE c

\* str.lower()
Lower(str) == [i \in 1..Len(str) |-> LowerChar(str[i])]

\* \d
IsDigit(c) == c \in Digits

\* \s
IsSpace(c) == c \in {" ", "\n", "\r", "\t"}

\* \w
IsWord(c) == c \in Digits \cup LowerLetters \cup UpperLetters \cup {"_"}

\* str[i:j] with 0-based Python indices turned into the 1-based positions
\* lo..hi (inclusive); empty when hi < lo
Slice(str, lo, hi) == IF hi < lo THEN <<>> ELSE SubSeq(str, lo, hi)

\* does pat occur in str at position i (case-sensitive)
MatchAt(str, pat, i) ==
    /\ i + Len(pat) - 1 <= Len(str)
    /\ \A j \in 1..Len(pat) : str[i + j - 1] = pat[j]

\* does pat occur in str at position i, ignoring letter case (re.I)
MatchAtCI(str, pat, i) ==
    /\ i + Len(pat) - 1 <= Len(str)
    /\ \A j \in 1..Len(pat) : LowerChar(str[i + j - 1]) = LowerChar(pat[j])

\* str.startswith / str.endswith for a one-character argument
StartsWith(str, c) == Len(str) >= 1 /\ str[1] = c
EndsWith(str, c) == Len(str) >= 1 /\ str[Len(str)] = c

\* the least element of a nonempty set of integers
Min(S) == CHOOSE m \in S : \A k \in S : m <= k

\* the greatest element of a nonempty set of integers
Max(S) == CHOOSE m \in S : \A k \in S : m >= k

\* the j-th smallest element of a set of integers
Nth(S, j) == CHOOSE i \in S : Cardinality({k \in S : k <= i}) = j

\* str.strip()
Strip(str) ==
    LET solid == {i \in 1..Len(str) : ~IsSpace(str[i])}
    IN  IF solid = {} THEN <<>> ELSE SubSeq(str, Min(solid), Max(solid))

\* str.replace(pat, "") for a pattern no two occurrences of which can
\* overlap (",", "$", "AED", "US$"): every character of an occurrence goes
RemoveAll(str, pat) ==
    LET starts  == {i \in 1..Len(str) : MatchAt(str, pat, i)}
        covered == {i \in 1..Len(str) : \E b \in starts : b <= i /\ i < b + Len(pat)}
        kept    == SelectSeq([i \in 1..Len(str) |-> <<i, str[i]>>],
                             LAMBDA q : q[1] \notin covered)
    IN  [j \in 1..Len(kept) |-> kept[j][2]]

\* str.replace(c, d) for single characters c and d
ReplaceChar(str, c, d) == [i \in 1..Len(str) |-> IF str[i] = c THEN d ELSE str[i]]

\* sep.join(parts)
RECURSIVE Join(_, _)
Join(sep, parts) ==
    IF parts = <<>> THEN <<>>
    ELSE IF Len(parts) = 1 THEN parts[1]
    ELSE parts[1] \o sep \o Join(sep, Tail(parts))

\* the end (last position, inclusive) of the longest run of characters of
\* the class cls that starts at position i; i - 1 when the run is empty
RunEnd(str, i, cls) ==
    Min({j \in i..(Len(str) + 1) : j = Len(str) + 1 \/ str[j] \notin cls}) - 1

SpaceChars == {" ", "\n", "\r", "\t"}

-----------------------------------------------------------------------------
(* decimal.Decimal under getcontext().prec = 12, rounding ROUND_HALF_EVEN *)

\* getcontext().prec
prec == 12

\* natural numbers as digit sequences, most significant digit first,
\* without leading zeros; <<>> is zero
StripLeadingZeros(x) ==
    LET nz == {i \in 1..Len(x) : x[i] # 0}
    IN  IF nz = {} THEN <<>> ELSE SubSeq(x, Min(nz), Len(x))

StripTrailingZeros(x) ==
    LET nz == {i \in 1..Len(x) : x[i] # 0}
    IN  IF nz = {} THEN <<>> ELSE SubSeq(x, 1, Max(nz))

Zeros(n) == [i \in 1..n |-> 0]

\* -1, 0, 1 as x <, =, > y, for operands of the same length
CmpSameLen(x, y) ==
    LET diff == {i \in 1..Len(x) : x[i] # y[i]}
    IN  IF diff = {} THEN 0
        ELSE IF x[Min(diff)] < y[Min(diff)] THEN -1 ELSE 1

NatCmp(x, y) ==
    IF Len(x) < Len(y) THEN -1
    ELSE IF Len(x) > Len(y) THEN 1
    ELSE CmpSameLen(x, y)

\* x + y: the carry into position i comes from a position j > i that
\* generates one (digit sum >= 10) across positions that propagate it (sum 9)
NatAdd(x, y) ==
    LET n  == (IF Len(x) > Len(y) THEN Len(x) ELSE Len(y)) + 1
        px == Zeros(n - Len(x)) \o x
        py == Zeros(n - Len(y)) \o y
        carry(i) == \E j \in (i + 1)..n :
                        /\ px[j] + py[j] >= 10
                        /\ \A k \in (i + 1)..(j - 1) : px[k] + py[k] = 9
    IN  StripLeadingZeros([i \in 1..n |->
            (px[i] + py[i] + (IF carry(i) THEN 1 ELSE 0)) % 10])

\* x - y for x >= y: the borrow into position i comes from a position j > i
\* where x[j] < y[j] across positions where the digits are equal
NatSub(x, y) ==
    LET n  == Len(x)
        py == Zeros(n - Len(y)) \o y
        borrow(i) == \E j \in (i + 1)..n :
                        /\ x[j] < py[j]
                        /\ \A k \in (i + 1)..(j - 1) : x[k] = py[k]
    IN  StripLeadingZeros([i \in 1..n |->
            (x[i] - py[i] - (IF borrow(i) THEN 1 ELSE 0) + 10) % 10])

\* x + x
Twice(x) == NatAdd(x, x)

\* the sum of those of x, 2x, 4x and 8x that the binary digits of d select
SelectedSum(x, x2, x4, x8, d) ==
    NatAdd(NatAdd(IF d % 2 = 1 THEN x ELSE <<>>,
                  IF (d \div 2) % 2 = 1 THEN x2 ELSE <<>>),
           NatAdd(IF (d \div 4) % 2 = 1 THEN x4 ELSE <<>>,
                  IF d \div 8 = 1 THEN x8 ELSE <<>>))

TimesUpTo8(x, x2, x4, d) == SelectedSum(x, x2, x4, Twice(x4), d)

TimesUpTo4(x, x2, d) == TimesUpTo8(x, x2, Twice(x2), d)

\* x * d for one digit d, by doubling
NatMulDigit(x, d) == TimesUpTo4(x, Twice(x), d)

\* x * 10^n
ShiftLeft(x, n) == IF x = <<>> THEN <<>> ELSE x \o Zeros(n)

\* terms[lo] + ... + terms[hi], by halves
RECURSIVE SumRange(_, _, _)
SumRange(terms, lo, hi) ==
    IF lo > hi THEN <<>>
    ELSE IF lo = hi THEN terms[lo]
    ELSE NatAdd(SumRange(terms, lo, (lo + hi) \div 2),
                SumRange(terms, (lo + hi) \div 2 + 1, hi))

\* x * y: the sum of the products of x by the digits of y, each shifted to
\* its place
NatMul(x, y) ==
    SumRange([k \in 1..Len(y) |-> ShiftLeft(NatMulDigit(x, y[k]), Len(y) - k)],
             1, Len(y))

\* the integer a digit sequence denotes (the divisors of the model have at
\* most nine digits)
RECURSIVE NatToInt(_)
NatToInt(x) ==
    IF x = <<>> THEN 0 ELSE 10 * NatToInt(SubSeq(x, 1, Len(x) - 1)) + x[Len(x)]

\* long division of the digit sequence x by the integer y > 0: the
\* <<quotient digits, remainder>> once the first n digits of x are brought down
BringDown(prev, digit, y) ==
    <<Append(prev[1], (10 * prev[2] + digit) \div y), (10 * prev[2] + digit) % y>>

RECURSIVE DivPrefix(_, _, _)
DivPrefix(x, y, n) ==
    IF n = 0 THEN << <<>>, 0 >> ELSE BringDown(DivPrefix(x, y, n - 1), x[n], y)

\* the quotient without leading zeros, and whether there is a remainder
QuotientAndRest(qr) == <<StripLeadingZeros(qr[1]), qr[2] # 0>>

\* divmod(x, y) for y # 0: <<quotient, remainder # 0>>
NatDivMod(x, y) == QuotientAndRest(DivPrefix(x, NatToInt(y), Len(x)))

\* a Decimal with the given sign, coefficient and exponent, zeros normalised
Canonical(neg, c, top) ==
    IF c = <<>>
    THEN [kind |-> "Decimal", neg |-> FALSE, coef |-> <<>>, exp |-> 0]
    ELSE [kind |-> "Decimal", neg |-> neg, coef |-> c, exp |-> top - Len(c)]

Trimmed(neg, lead, exp) == Canonical(neg, StripTrailingZeros(lead), exp + Len(lead))

Dec(neg, coef, exp) == Trimmed(neg, StripLeadingZeros(coef), exp)

IsDecimal(v) == v.kind = "Decimal"

IsZero(d) == d.coef = <<>>

\* Decimal._fix: round a coefficient to prec significant digits, half even
\* head rounded by the digits rest that are dropped after it
Rounded(head, cmp) ==
    IF cmp > 0 \/ (cmp = 0 /\ head[Len(head)] % 2 = 1) THEN NatAdd(head, <<1>>) ELSE head

\* the coefficient c, without leading zeros, rounded half even to p digits
RoundCoef(p, c) ==
    IF Len(c) <= p THEN c
    ELSE Rounded(SubSeq(c, 1, p),
                 CmpSameLen(SubSeq(c, p + 1, Len(c)), <<5>> \o Zeros(Len(c) - p - 1)))

RoundStripped(p, neg, c, exp) ==
    Dec(neg, RoundCoef(p, c), IF Len(c) <= p THEN exp ELSE exp + Len(c) - p)

RoundTo(p, neg, coef, exp) == RoundStripped(p, neg, StripLeadingZeros(coef), exp)

Fix(neg, coef, exp) == RoundTo(prec, neg, coef, exp)

\* the Decimal x rounded to the context precision
FixDec(x) == Fix(x.neg, x.coef, x.exp)

\* Decimal(n) for a natural number n
RECURSIVE NatDigits(_)
NatDigits(n) == IF n = 0 THEN <<>> ELSE Append(NatDigits(n \div 10), n % 10)

DecimalOfInt(n) == IF n < 0 THEN Dec(TRUE, NatDigits(-n), 0) ELSE Dec(FALSE, NatDigits(n), 0)

\* Decimal(str) for a str made of digits, '.' and '-': an optional leading
\* '-', digits with at most one '.', and at least one digit; any other
\* arrangement raises decimal.InvalidOperation.  The conversion is exact.
DecimalOfStr(str) ==
    LET neg   == StartsWith(str, "-")
        body  == IF neg THEN Tail(str) ELSE str
        dots  == {i \in 1..Len(body) : body[i] = "."}
        valid == /\ \A i \in 1..Len(body) : body[i] \in Digits \cup {"."}
                 /\ Cardinality(dots) <= 1
                 /\ \E i \in 1..Len(body) : body[i] \in Digits
        dot   == IF dots = {} THEN Len(body) + 1 ELSE CHOOSE i \in dots : TRUE
        int   == SubSeq(body, 1, dot - 1)
        frac  == SubSeq(body, dot + 1, Len(body))
        ds    == int \o frac
    IN  IF ~valid THEN Raised("InvalidOperation")
        ELSE Dec(neg, [i \in 1..Len(ds) |-> DigitVal[ds[i]]], -Len(frac))

\* Decimal.__neg__
DecNeg(a) == Dec(~a.neg, a.coef, a.exp)

\* the exact product a * b
ExactMul(a, b) == Dec(a.neg # b.neg, NatMul(a.coef, b.coef), a.exp + b.exp)

\* Decimal.__mul__: the exact product, rounded to the context precision
DecMul(a, b) == FixDec(ExactMul(a, b))

\* the coefficient of a at the exponent e <= a.exp
CoefAt(a, e) == IF a.coef = <<>> THEN <<>> ELSE a.coef \o Zeros(a.exp - e)

\* the exact difference a - b, taken at the smaller exponent
ExactSub(a, b) ==
    LET e  == IF a.exp < b.exp THEN a.exp ELSE b.exp
        ca == CoefAt(a, e)
        cb == CoefAt(b, e)
    IN  IF a.neg # b.neg THEN Dec(a.neg, NatAdd(ca, cb), e)
        ELSE IF NatCmp(ca, cb) >= 0 THEN Dec(a.neg, NatSub(ca, cb), e)
        ELSE Dec(~a.neg, NatSub(cb, ca), e)

\* Decimal.__sub__: the exact difference, rounded to the context precision
DecSub(a, b) == FixDec(ExactSub(a, b))

\* -1, 0, 1 as |a| <, =, > |b|
CmpAbs(a, b) ==
    LET e == IF a.exp < b.exp THEN a.exp ELSE b.exp
    IN  NatCmp(CoefAt(a, e), CoefAt(b, e))

\* Decimal.__truediv__ for a nonzero divisor: prec + 1 or prec + 2 quotient
\* digits, the last one made sticky when the division is inexact, then
\* rounded to the context precision
Sticky(q, inexact) ==
    IF inexact /\ (IF q = <<>> THEN 0 ELSE q[Len(q)]) % 5 = 0 THEN NatAdd(q, <<1>>) ELSE q

StickyQuotient(qr) == Sticky(qr[1], qr[2])

DivShifted(a, b, shift) ==
    Fix(a.neg # b.neg,
        StickyQuotient(NatDivMod(a.coef \o Zeros(IF shift >= 0 THEN shift ELSE 0),
                                 b.coef \o Zeros(IF shift >= 0 THEN 0 ELSE -shift))),
        a.exp - b.exp - shift)

DecDiv(a, b) ==
    IF IsZero(a) THEN Dec(FALSE, <<>>, 0)
    ELSE DivShifted(a, b, Len(b.coef) - Len(a.coef) + prec + 1)

-----------------------------------------------------------------------------
(* The regular expressions of the two engines.  A match is decided as     *)
(* Python's backtracking matcher decides it: leftmost start, greedy        *)
(* quantifiers, alternatives in the order written.                         *)

\* (bn|billion|m|million|k|thousand), in the order of the alternation
UnitWords == << <<"b", "n">>,
                <<"b", "i", "l", "l", "i", "o", "n">>,
                <<"m">>,
                <<"m", "i", "l", "l", "i", "o", "n">>,
                <<"k">>,
                <<"t", "h", "o", "u", "s", "a", "n", "d">> >>

NoMatch == [found |-> FALSE]

\* \b right after position p, when the character at p is a word character
WordEndsAt(str, p) == p = Len(str) \/ ~IsWord(str[p + 1])

\* (?i)(bn|...|thousand) at position i, followed by \b when bounded:
\* the index in UnitWords of the first alternative that matches, 0 if none
UnitAt(str, i, bounded) ==
    LET ok == {u \in 1..Len(UnitWords) :
                  /\ MatchAtCI(str, UnitWords[u], i)
                  /\ bounded => WordEndsAt(str, i + Len(UnitWords[u]) - 1)}
    IN  IF ok = {} THEN 0 ELSE Min(ok)

\* -?\d+(\.\d+)? at position i: the end of the match, 0 if there is none
SignedNumberEnd(str, i) ==
    LET d  == IF i <= Len(str) /\ str[i] = "-" THEN i + 1 ELSE i
        e1 == RunEnd(str, d, Digits)
        e2 == IF e1 + 2 <= Len(str) /\ str[e1 + 1] = "." /\ str[e1 + 2] \in Digits
              THEN RunEnd(str, e1 + 2, Digits) ELSE e1
    IN  IF e1 < d THEN 0 ELSE e2

\* A_UnitMatchAt with ([\d\.\-]+) for the number, as tools/extract_and_calc.py has it
A_UnitMatchAt_AnyRun(str, i) ==
    LET e == RunEnd(str, i, Digits \cup {".", "-"})
        w == RunEnd(str, e + 1, SpaceChars)
        u == UnitAt(str, w + 1, TRUE)
    IN  IF e < i \/ u = 0 THEN NoMatch
        ELSE [found |-> TRUE, num |-> SubSeq(str, i, e), unit |-> Lower(UnitWords[u])]

\* re.search(r"(?i)(-?\d+(\.\d+)?)\s*(bn|billion|m|million|k|thousand)\b", str)
\* of agents/analysis_agent.py: group(1) and group(3) of the leftmost match
A_UnitMatchAt(str, i) ==
    LET e == SignedNumberEnd(str, i)
        w == RunEnd(str, e + 1, SpaceChars)
        u == UnitAt(str, w + 1, TRUE)
    IN  IF e = 0 \/ u = 0 THEN NoMatch
        ELSE [found |-> TRUE, num |-> SubSeq(str, i, e), unit |-> Lower(UnitWords[u])]

A_UnitFirst(str, starts) ==
    IF starts = {} THEN NoMatch ELSE A_UnitMatchAt(str, Min(starts))

A_UnitSearch(str) ==
    A_UnitFirst(str, {i \in 1..Len(str) : A_UnitMatchAt(str, i).found})

\* re.search(r"-?\d+(\.\d+)?", str) of agents/analysis_agent.py: group(0)
A_NumberFirst(str, starts) ==
    IF starts = {} THEN NoMatch
    ELSE [found |-> TRUE,
          num |-> SubSeq(str, Min(starts), SignedNumberEnd(str, Min(starts)))]

A_NumberSearch(str) ==
    A_NumberFirst(str, {i \in 1..Len(str) : SignedNumberEnd(str, i) # 0})

\* re.search(r"(?i)([\d\.\-]+)\s*(bn|billion|m|million|k|thousand)\b", str)
\* of tools/extract_and_calc.py: group(1) and group(2) of the leftmost match
T_UnitMatchAt(str, i) ==
    LET e == RunEnd(str, i, Digits \cup {".", "-"})
        w == RunEnd(str, e + 1, SpaceChars)
        u == UnitAt(str, w + 1, TRUE)
    IN  IF e < i \/ u = 0 THEN NoMatch
        ELSE [found |-> TRUE, num |-> SubSeq(str, i, e), unit |-> Lower(UnitWords[u])]

T_UnitFirst(str, starts) ==
    IF starts = {} THEN NoMatch ELSE T_UnitMatchAt(str, Min(starts))

T_UnitSearch(str) ==
    T_UnitFirst(str, {i \in 1..Len(str) : T_UnitMatchAt(str, i).found})

\* (?:,\d{3})* from position i: the end of the last group taken
RECURSIVE GroupsEnd(_, _)
GroupsEnd(str, i) ==
    IF /\ i + 3 <= Len(str)
       /\ str[i] = ","
       /\ \A j \in 1..3 : str[i + j] \in Digits
    THEN GroupsEnd(str, i + 4) ELSE i - 1

\* (?:\.\d+)? from position i: the end of the match (i - 1 when skipped)
FractionEnd(str, i) ==
    IF i + 1 <= Len(str) /\ str[i] = "." /\ str[i + 1] \in Digits
    THEN RunEnd(str, i + 1, Digits) ELSE i - 1

\* the three alternatives of the fallback pattern of tools/extract_and_calc.py
\* at position i: the end of the match, 0 if there is none
\*   -?\d{1,3}(?:,\d{3})*(?:\.\d+)?
T_Alt1End(str, i) ==
    LET d  == IF i <= Len(str) /\ str[i] = "-" THEN i + 1 ELSE i
        e  == RunEnd(str, d, Digits)
        e3 == IF e > d + 2 THEN d + 2 ELSE e
    IN  IF e < d THEN 0 ELSE FractionEnd(str, GroupsEnd(str, e3 + 1) + 1)

\*   -?\d+\.\d+
T_Alt2End(str, i) ==
    LET d == IF i <= Len(str) /\ str[i] = "-" THEN i + 1 ELSE i
        e == RunEnd(str, d, Digits)
    IN  IF e < d \/ FractionEnd(str, e + 1) = e THEN 0 ELSE FractionEnd(str, e + 1)

\*   -?\d+
T_Alt3End(str, i) ==
    LET d == IF i <= Len(str) /\ str[i] = "-" THEN i + 1 ELSE i
        e == RunEnd(str, d, Digits)
    IN  IF e < d THEN 0 ELSE e

\* the first alternative that matches at position i decides the match
FirstNonZero(e1, e2, e3) == IF e1 # 0 THEN e1 ELSE IF e2 # 0 THEN e2 ELSE e3

T_NumberEnd(str, i) ==
    FirstNonZero(T_Alt1End(str, i), T_Alt2End(str, i), T_Alt3End(str, i))

\* re.search(r"(-?\d{1,3}(?:,\d{3})*(?:\.\d+)?|-?\d+\.\d+|-?\d+)", str): group(0)
T_NumberFirst(str, starts) ==
    IF starts = {} THEN NoMatch
    ELSE [found |-> TRUE,
          num |-> SubSeq(str, Min(starts), T_NumberEnd(str, Min(starts)))]

T_NumberSearch(str) ==
    T_NumberFirst(str, {i \in 1..Len(str) : T_NumberEnd(str, i) # 0})

\* \(?-?\d[\d,\.]*(?:\s*(?:bn|billion|m|million|k|thousand))?\)? with re.I
\* at position i: the end of the token, 0 if none starts there
TokenEnd(str, i) ==
    LET a  == IF i <= Len(str) /\ str[i] = "(" THEN i + 1 ELSE i
        b  == IF a <= Len(str) /\ str[a] = "-" THEN a + 1 ELSE a
        e  == RunEnd(str, b + 1, Digits \cup {",", "."})
        w  == RunEnd(str, e + 1, SpaceChars)
        u  == UnitAt(str, w + 1, FALSE)
        g  == IF u = 0 THEN e ELSE w + Len(UnitWords[u])
    IN  IF b > Len(str) \/ str[b] \notin Digits THEN 0
        ELSE IF g + 1 <= Len(str) /\ str[g + 1] = ")" THEN g + 1 ELSE g

\* re.findall of the token pattern from position i on: the matches, left to
\* right, none overlapping another
RECURSIVE FindAllFrom(_, _, _)
FindAllFrom(str, ends, i) ==
    LET starts == {j \in i..Len(str) : ends[j] # 0}
    IN  IF starts = {} THEN <<>>
        ELSE <<SubSeq(str, Min(starts), ends[Min(starts)])>>
             \o FindAllFrom(str, ends, ends[Min(starts)] + 1)

FindAll(str) ==
    FindAllFrom(str, SubSeq([j \in 1..Len(str) |-> TokenEnd(str, j)], 1, Len(str)), 1)

\* re.search(kw, line, re.I) for a keyword that is a literal phrase
KeywordSearch(kw, line) == \E i \in 1..Len(line) : MatchAtCI(line, kw, i)

\* re.split(r"\n|\r", str)
SplitLines(str) ==
    LET seps == SelectSeq([i \in 1..Len(str) |-> i],
                          LAMBDA i : str[i] \in {"\n", "\r"})
        n    == Len(seps)
        cut  == <<0>> \o seps \o <<Len(str) + 1>>
    IN  SubSeq([j \in 1..(n + 1) |-> Slice(str, cut[j] + 1, cut[j + 1] - 1)], 1, n + 1)

-----------------------------------------------------------------------------
(* agents/analysis_agent.py *)

\* A_Multiplier with the test for "m" left out
A_Multiplier_NoMillion(unit) ==
    IF unit[1] = "b" THEN Dec(FALSE, <<1>>, 9)
    ELSE IF unit[1] = "k" \/ unit[1] = "t" THEN Dec(FALSE, <<1>>, 3)
    ELSE Dec(FALSE, <<1>>, 0)

\* the multiplier chosen by the three successive ifs on the unit's first letter
A_Multiplier(unit) ==
    LET m0 == DecimalOfInt(1)
        m1 == IF unit[1] = "b" THEN Dec(FALSE, <<1>>, 9) ELSE m0
        m2 == IF unit[1] = "m" THEN Dec(FALSE, <<1>>, 6) ELSE m1
    IN  IF unit[1] = "k" \/ unit[1] = "t" THEN Dec(FALSE, <<1>>, 3) ELSE m2

\* s with the parentheses of an accounting negative taken off
Unwrapped(str) ==
    IF StartsWith(str, "(") /\ EndsWith(str, ")")
    THEN Strip(Slice(str, 2, Len(str) - 1)) ELSE str

\* s.replace(",", "").replace("$", "").replace("AED", "").replace("US$", "")
Unmarked(str) ==
    RemoveAll(RemoveAll(RemoveAll(RemoveAll(str, <<",">>), <<"$">>),
                        <<"A", "E", "D">>), <<"U", "S", "$">>)

\* num * multiplier; a raised exception goes on
Scaled(num, multiplier) == IF IsRaise(num) THEN num ELSE DecMul(num, multiplier)

\* return -val if negative else val (None and a raised exception go on)
Signed(val, negative) ==
    IF ~IsDecimal(val) THEN val ELSE IF negative THEN DecNeg(val) ELSE val

\* the fallback: the first bare number m2 of the string
A_FromNumber(m2, negative) ==
    IF m2.found THEN Signed(DecimalOfStr(m2.num), negative) ELSE None

\* the unit match m decides; without one, the fallback on s1 without commas
A_FromUnit(m, s1, negative) ==
    IF m.found
    THEN Signed(Scaled(DecimalOfStr(m.num), A_Multiplier(m.unit)), negative)
    ELSE A_FromNumber(A_NumberSearch(RemoveAll(s1, <<",">>)), negative)

\* s1 is the string without parentheses and currency markers
A_FromCleaned(s1, negative) == A_FromUnit(A_UnitSearch(s1), s1, negative)

\* s0 is the stripped string
A_FromStripped(s0) ==
    A_FromCleaned(Unmarked(Unwrapped(s0)), StartsWith(s0, "(") /\ EndsWith(s0, ")"))

A_normalize_number_str(arg) ==
    IF arg = None THEN None ELSE A_FromStripped(Strip(arg.chars))

\* A_calc_pct_change with the operands of the subtraction exchanged
A_calc_pct_change_Reversed(o, n) ==
    IF o = None \/ n = None THEN None
    ELSE IF IsZero(o) THEN None
    ELSE DecMul(DecDiv(DecSub(o, n), o), DecimalOfInt(100))

A_calc_pct_change(o, n) ==
    IF o = None \/ n = None THEN None
    ELSE IF IsZero(o) THEN None
    ELSE DecMul(DecDiv(DecSub(n, o), o), DecimalOfInt(100))

-----------------------------------------------------------------------------
(* tools/extract_and_calc.py *)

\* the multiplier chosen by the if / elif chain on the unit's first letter
T_Multiplier(unit) ==
    IF unit[1] = "b" THEN Dec(FALSE, <<1>>, 9)
    ELSE IF unit[1] = "m" THEN Dec(FALSE, <<1>>, 6)
    ELSE IF unit[1] = "k" \/ unit[1] = "t" THEN Dec(FALSE, <<1>>, 3)
    ELSE DecimalOfInt(1)

\* ExceptNone with the except clause left out
ExceptNone_Propagates(v) == v

\* try: ... except: return None
ExceptNone(v) == IF IsRaise(v) THEN None ELSE v

\* the fallback: the first bare number m2 of the string, in a try
T_FromNumber(m2, negative) ==
    IF m2.found THEN Signed(ExceptNone(DecimalOfStr(m2.num)), negative) ELSE None

\* the unit match m decides, in a try; without one, the fallback on s2
\* without commas
T_FromUnit(m, s2, negative) ==
    IF m.found
    THEN Signed(ExceptNone(Scaled(DecimalOfStr(m.num), T_Multiplier(m.unit))), negative)
    ELSE T_FromNumber(T_NumberSearch(RemoveAll(s2, <<",">>)), negative)

\* s.replace("\u2014", "-").replace("\u2013", "-")
Dashed(str) == ReplaceChar(ReplaceChar(str, "emdash", "-"), "endash", "-")

\* s2 is the string without parentheses and currency markers, dashes unified
T_FromCleaned(s2, negative) == T_FromUnit(T_UnitSearch(s2), s2, negative)

\* s0 is the stripped string
T_FromStripped(s0) ==
    T_FromCleaned(Dashed(Unmarked(Unwrapped(s0))),
                  StartsWith(s0, "(") /\ EndsWith(s0, ")"))

T_normalize_number_str(arg) ==
    IF arg = None \/ arg.chars = <<>> THEN None ELSE T_FromStripped(Strip(arg.chars))

-----------------------------------------------------------------------------
(* find_number_in_text, the same in both files but for the normalizer called
   and the default keywords *)

\* the default keyword list of agents/analysis_agent.py
A_DefaultKeywords ==
    << <<"n", "e", "t", " ", "p", "r", "o", "f", "i", "t">>,
       <<"n", "e", "t", " ", "i", "n", "c", "o", "m", "e">>,
       <<"p", "r", "o", "f", "i", "t", " ", "f", "o", "r", " ", "t", "h", "e", " ",
         "p", "e", "r", "i", "o", "d">>,
       <<"p", "r", "o", "f", "i", "t", " ", "f", "o", "r", " ", "t", "h", "e", " ",
         "y", "e", "a", "r">>,
       <<"p", "r", "o", "f", "i", "t", " ", "a", "t", "t", "r", "i", "b", "u", "t",
         "a", "b", "l", "e", " ", "t", "o", " ", "o", "w", "n", "e", "r", "s">>,
       <<"p", "r", "o", "f", "i", "t", " ", "a", "f", "t", "e", "r", " ", "t", "a", "x">> >>

\* the length of the context of a global match: text[:300]
ContextLimit == 300

\* Window with a fourth line: " ".join(lines[idx: idx+4])
Window_FourLines(lines, i) ==
    Join(<<" ">>, SubSeq(lines, i, IF i + 3 > Len(lines) THEN Len(lines) ELSE i + 3))

\* " ".join(lines[idx: idx+3]) for the 1-based line number i
Window(lines, i) ==
    Join(<<" ">>, SubSeq(lines, i, IF i + 2 > Len(lines) THEN Len(lines) ELSE i + 2))

\* normalize_number_str of the engine eng ("agents" or "tools")
Normalize(eng, tok) ==
    IF eng = "agents" THEN A_normalize_number_str(Str(tok))
    ELSE T_normalize_number_str(Str(tok))

\* the first token of nums that normalizes: <<token, value>>, or None
FirstOf(nums, vals, ok) ==
    IF ok = {} THEN None
    ELSE [kind |-> "hit", nm |-> nums[Min(ok)], val |-> vals[Min(ok)]]

FirstValue(nums, vals) == FirstOf(nums, vals, {j \in 1..Len(nums) : vals[j] # None})

FirstNormalizable(nums, eng) ==
    FirstValue(nums, SubSeq([j \in 1..Len(nums) |-> Normalize(eng, nums[j])],
                            1, Len(nums)))

\* the loops over the lines and, for each line, over the keywords; the body
\* returns from the function at the first token that normalizes.  The window
\* of a line does not depend on the keyword, so a line is decided by whether
\* any keyword matches it.
\* the dict returned for the token h found in the window of line i
WindowResult(lines, i, h) ==
    [kind |-> "dict", value |-> h.val, matched_text |-> h.nm,
     context |-> Strip(Window(lines, i)), line_index |-> i - 1]

\* hits[i] is what the window of line i gives, None when line i has no
\* keyword or its window no token that normalizes
FirstWindow(lines, hits, good) ==
    IF good = {} THEN None ELSE WindowResult(lines, Min(good), hits[Min(good)])

FirstHit(lines, hits) ==
    FirstWindow(lines, hits, {i \in 1..Len(lines) : hits[i] # None})

ScanLines(lines, kws, eng) ==
    FirstHit(lines,
             SubSeq([i \in 1..Len(lines) |->
                        IF \E k \in 1..Len(kws) : KeywordSearch(kws[k], lines[i])
                        THEN FirstNormalizable(FindAll(Window(lines, i)), eng)
                        ELSE None],
                    1, Len(lines)))

KeywordScan(txt, kws, eng) == ScanLines(SplitLines(txt), kws, eng)

\* the fallback global search over the whole text
\* GlobalResult with the whole text as context
GlobalResult_WholeText(txt, hit) ==
    IF hit = None THEN None
    ELSE [kind |-> "dict", value |-> hit.val, matched_text |-> hit.nm, context |-> txt]

\* the dict returned for the token hit found in the whole text
GlobalResult(txt, hit) ==
    IF hit = None THEN None
    ELSE [kind |-> "dict", value |-> hit.val, matched_text |-> hit.nm,
          context |-> Slice(txt, 1, IF Len(txt) > ContextLimit
                                    THEN ContextLimit ELSE Len(txt))]

GlobalScan(txt, eng) == GlobalResult(txt, FirstNormalizable(FindAll(txt), eng))

\* the result res of the loop over the lines, or else the global search
OrGlobal(res, txt, eng) == IF res # None THEN res ELSE GlobalScan(txt, eng)

A_find_number_in_text(txt, kws) ==
    OrGlobal(KeywordScan(txt, IF kws = None THEN A_DefaultKeywords ELSE kws.items,
                         "agents"),
             txt, "agents")

\* the default keyword list of tools/extract_and_calc.py
T_DefaultKeywords == SubSeq(A_DefaultKeywords, 1, 4)

T_find_number_in_text(txt, kws) ==
    OrGlobal(KeywordScan(txt, IF kws = None THEN T_DefaultKeywords ELSE kws.items,
                         "tools"),
             txt, "tools")

\* old == 0 is False for None, and the subtraction then raises TypeError
T_calc_pct_change(o, n) ==
    IF o # None /\ IsZero(o) THEN None
    ELSE IF o = None \/ n = None THEN Raised("TypeError")
    ELSE DecMul(DecDiv(DecSub(n, o), o), DecimalOfInt(100))

\* format(x, ".<places>f"): x rounded half even to places decimals.  padded
\* is the coefficient behind leading zeros, of which the first keep digits
\* stay and the last k go.
CutAt(neg, padded, keep, k, places) ==
    Dec(neg,
        Rounded(SubSeq(padded, 1, keep),
                CmpSameLen(SubSeq(padded, keep + 1, keep + k), <<5>> \o Zeros(k - 1))),
        -places)

DropDigits(x, k, places) ==
    CutAt(x.neg, Zeros(k + 1) \o x.coef, Len(x.coef) + 1, k, places)

FormatFixed(x, places) ==
    IF x.exp >= -places THEN x ELSE DropDigits(x, (-places) - x.exp, places)

\* the decimals of the "YoY % change" line: {pct:.6f}
YoyPlaces == 6

\* the entry load_db_and_extract appends for the document src with the text
\* page_content; the entries' metadata, inferred and snippet are not read
\* by choose_best_extract and are left out
Extracted(src, page_content) ==
    [kind |-> "dict", source |-> src,
     extract |-> T_find_number_in_text(page_content, List(T_DefaultKeywords))]

\* load_db_and_extract for the documents docs that the similarity search and
\* the source filter leave, whose texts the store db holds
load_db_and_extract(db, docs) ==
    SubSeq([k \in 1..Len(docs) |-> Extracted(docs[k], db[docs[k]])], 1, Len(docs))

\* the score of an extraction without line_index
NoLineIndexScore == 1000

Score(extract) ==
    IF "line_index" \in DOMAIN extract THEN extract.line_index ELSE NoLineIndexScore

\* Better with <= in place of <
Better_OrEqual(best, score) == best = None \/ score <= best.score

\* best is None or score < best[0]
Better(best, score) == best = None \/ score < best.score

\* one round of the loop over results, for the entry r
Consider(best, r, score) ==
    IF Better(best, score) THEN [kind |-> "best", score |-> score, r |-> r] ELSE best

\* the value of best after the first n entries of results
RECURSIVE BestAfter(_, _)
BestAfter(results, n) ==
    IF n = 0 THEN None
    ELSE IF results[n].extract = None THEN BestAfter(results, n - 1)
    ELSE Consider(BestAfter(results, n - 1), results[n], Score(results[n].extract))

\* best[1] if best else None
EntryOf(best) == IF best = None THEN None ELSE best.r

choose_best_extract(results) == EntryOf(BestAfter(results, Len(results)))


-----------------------------------------------------------------------------
(* tools/extract_and_calc.py: infer_year_quarter_from_source *)

\* a Python int
PyInt(n) == [kind |-> "int", n |-> n]

\* the number four decimal digits spell
IntOfDigits(d) ==
    1000 * DigitVal[d[1]] + 100 * DigitVal[d[2]] + 10 * DigitVal[d[3]] + DigitVal[d[4]]

\* (20\d{2}) at position i
YearAt(str, i) ==
    /\ i + 3 <= Len(str)
    /\ str[i] = "2" /\ str[i + 1] = "0"
    /\ str[i + 2] \in Digits /\ str[i + 3] \in Digits

\* re.search(r"(20\d{2})", lower) and int(m.group(1)), None without a match
YearFrom(lower, starts) ==
    IF starts = {} THEN None
    ELSE PyInt(IntOfDigits(SubSeq(lower, Min(starts), Min(starts) + 3)))

YearOf(lower) == YearFrom(lower, {i \in 1..Len(lower) : YearAt(lower, i)})

\* \bq([1-4])\b with re.I at position i
QuarterAt(str, i) ==
    /\ i + 1 <= Len(str)
    /\ str[i] \in {"q", "Q"}
    /\ str[i + 1] \in {"1", "2", "3", "4"}
    /\ i = 1 \/ ~IsWord(str[i - 1])
    /\ i + 1 = Len(str) \/ ~IsWord(str[i + 2])

\* the months dict, in insertion order
Months ==
    << [mon |-> <<"m", "a", "r", "c", "h">>, qv |-> <<"Q", "1">>], [mon |-> <<"m", "a", "r">>, qv |-> <<"Q", "1">>],
       [mon |-> <<"j", "u", "n", "e">>, qv |-> <<"Q", "2">>], [mon |-> <<"j", "u", "n">>, qv |-> <<"Q", "2">>],
       [mon |-> <<"s", "e", "p", "t">>, qv |-> <<"Q", "3">>], [mon |-> <<"s", "e", "p", "t", "e", "m", "b", "e", "r">>, qv |-> <<"Q", "3">>],
       [mon |-> <<"s", "e", "p">>, qv |-> <<"Q", "3">>],
       [mon |-> <<"d", "e", "c", "e", "m", "b", "e", "r">>, qv |-> <<"Q", "4">>], [mon |-> <<"d", "e", "c">>, qv |-> <<"Q", "4">>] >>

\* mon in lower
Contains(str, pat) == \E i \in 1..Len(str) : MatchAt(str, pat, i)

\* the loop over months.items() with its break
FirstMonth(hits) == IF hits = {} THEN None ELSE Str(Months[Min(hits)].qv)

MonthQuarter(lower) ==
    FirstMonth({k \in 1..Len(Months) : Contains(lower, Months[k].mon)})

\* f"Q{int(m.group(1))}" for the first match, else the months
QuarterFrom(str, lower, starts) ==
    IF starts # {} THEN Str(<<"Q", str[Min(starts) + 1]>>) ELSE MonthQuarter(lower)

QuarterOf(str, lower) ==
    QuarterFrom(str, lower, {i \in 1..Len(str) : QuarterAt(str, i)})

YearAndQuarter(str, lower) ==
    [kind |-> "dict", year |-> YearOf(lower), quarter |-> QuarterOf(str, lower)]

infer_year_quarter_from_source(str) == YearAndQuarter(str, Lower(str))

-----------------------------------------------------------------------------
(* agents/reporting_agent.py *)

\* str(v) for v = None or a Decimal.  The text of a Decimal is kept as the
\* number it spells, which is what float() reads back from it.
DecimalText(d) == [kind |-> "str", spells |-> d]

PyStr(v) == IF v = None THEN Str(<<"N", "o", "n", "e">>) ELSE DecimalText(v)

\* str(resp) for a response object or dict: some text that shows resp
ReprText(resp) == [kind |-> "str", shows |-> resp]

\* float(t): the number the text spells; ValueError for any other text
PyFloat(t) == IF "spells" \in DOMAIN t THEN t.spells ELSE Raised("ValueError")

\* one line of the fallback report: fixed text, then a formatted value
Line(label, arg) == [label |-> label, arg |-> arg]

\* lines 87-96: the conclusion drawn from float(pct), none when float raises
Conclusion(pct_num) ==
    IF IsRaise(pct_num) THEN <<>>
    ELSE IF IsZero(pct_num) THEN <<Line("Conclusion: No change detected.", None)>>
    ELSE IF pct_num.neg THEN <<Line("Conclusion: The metric decreased.", None)>>
    ELSE <<Line("Conclusion: The metric increased.", None)>>

\* lines 82-98
Summary(from_value, to_value, pct_change) ==
    IF from_value # None /\ to_value # None /\ pct_change # None
    THEN <<Line("- From value: ", from_value), Line("- To value:   ", to_value),
           Line("- Change:     ", pct_change)>> \o Conclusion(PyFloat(pct_change))
    ELSE <<Line("Could not compute numeric summary from inputs.", None)>>

\* lines 71-105: the fallback report, "\n".join(lines)
FallbackReport(numeric_trace, citations) ==
    [kind |-> "str",
     lines |-> <<Line("[FALLBACK REPORT]", None), Line("", None), Line("Summary:", None)>>
               \o Summary(numeric_trace.from_value, numeric_trace.to_value,
                          numeric_trace.pct_change)
               \o <<Line("", None), Line("Citations:", None)>>
               \o [i \in 1..Len(citations) |-> Line("- ", citations[i])]]

\* what generate_report gives back, with the LLM calls it made
Returned(value, calls) == [value |-> value, calls |-> calls]

\* lines 40-44: the reply of genai.generate_text.  An empty candidates list
\* raises IndexError and a candidate without .get raises AttributeError
FromGenerateText(resp) ==
    IF resp.kind = "object" /\ "result" \in DOMAIN resp THEN resp.result
    ELSE IF resp.kind = "dict" /\ "candidates" \in DOMAIN resp
    THEN IF resp.candidates = <<>> THEN Raised("IndexError")
         ELSE IF resp.candidates[1].kind # "dict" THEN Raised("AttributeError")
         ELSE IF "content" \in DOMAIN resp.candidates[1] THEN resp.candidates[1].content
         ELSE ReprText(resp)
    ELSE ReprText(resp)

\* lines 53-57: the reply of genai.Completion.create
FromCompletion(resp) ==
    IF resp.kind = "object" /\ "text" \in DOMAIN resp THEN resp.text
    ELSE IF resp.kind = "dict"
    THEN IF "text" \in DOMAIN resp /\ resp.text # None /\ resp.text # Str(<<>>)
         THEN resp.text ELSE ReprText(resp)
    ELSE ReprText(resp)

\* lines 31-69: the value returned from inside the try block, or a raised
\* exception when the block is left without a return (Raised("none") when
\* no exception was raised either); with the number of LLM calls made
Primary(lib) ==
    IF lib = None THEN Returned(Raised("none"), 0)
    ELSE IF "generate_text" \in lib.has
    THEN Returned(IF IsRaise(lib.reply) THEN lib.reply ELSE FromGenerateText(lib.reply), 1)
    ELSE IF "Completion" \in lib.has
    THEN Returned(IF IsRaise(lib.reply) THEN lib.reply ELSE FromCompletion(lib.reply), 1)
    ELSE IF "chat" \in lib.has
    THEN Returned(IF IsRaise(lib.reply) THEN lib.reply ELSE ReprText(lib.reply), 1)
    ELSE Returned(Raised("none"), 0)

\* the except clauses at lines 65 and 68 lead to the fallback report
OrFallback(first, numeric_trace, citations) ==
    IF IsRaise(first.value)
    THEN Returned(FallbackReport(numeric_trace, citations), first.calls)
    ELSE first

\* the prompt of lines 15-29 goes to the LLM only and is not modelled
generate_report(lib, numeric_trace, citations) ==
    OrFallback(Primary(lib), numeric_trace, citations)

-----------------------------------------------------------------------------
(* The calls the model makes.  Every run picks its arguments in the initial *)
(* state and then applies the functions of both files to them.              *)

\* the values the variables of the other runs keep
IdleNorm == s = None /\ normA = Pending /\ normT = Pending
IdleFind == text = <<>> /\ keywords = None /\ findA = Pending /\ findT = Pending
IdlePct  == old = None /\ new = None /\ pctA = Pending /\ pctT = Pending
IdleCli  == /\ from_docs = <<>> /\ to_docs = <<>>
            /\ from_results = <<>> /\ to_results = <<>>
            /\ from_best = None /\ to_best = None
            /\ pct = Pending /\ yoy = Pending /\ exit_code = Pending /\ pc = "idle"

IdleApp  == /\ from_ex = None /\ to_ex = None /\ genai = None
            /\ answer = Pending /\ llm_calls = 0
IdleInfer == source = <<>> /\ inferred = Pending

normVars == <<s, normA, normT>>
findVars == <<text, keywords, findA, findT>>
pctVars  == <<old, new, pctA, pctT>>
cliVars  == <<from_docs, to_docs, from_results, to_results, from_best, to_best,
              pct, yoy, exit_code, pc>>
appVars  == <<from_ex, to_ex, genai, answer, llm_calls>>
inferVars == <<source, inferred>>

-----------------------------------------------------------------------------
(* normalize_number_str *)

\* the longest string over NormAlphabet that is tried
MaxNormLen == 3

NormAlphabet == {"1", "5", ".", ",", "-", "(", ")", " ", "m", "k"}

\* all strings over alphabet of length at most n
StringsUpTo(alphabet, n) == UNION {[1..k -> alphabet] : k \in 0..n}

\* a figure as a report prints it: the digits before and after the decimal
\* point, the digits before it in groups of three when grouped
Literals ==
    { [int |-> <<1>>, frac |-> <<>>, grouped |-> FALSE],
      [int |-> <<1>>, frac |-> <<5>>, grouped |-> FALSE],
      [int |-> <<1, 2, 3, 4>>, frac |-> <<5>>, grouped |-> TRUE],
      [int |-> <<1, 2, 3, 4>>, frac |-> <<>>, grouped |-> TRUE],
      [int |-> <<7, 8, 9, 5>>, frac |-> <<>>, grouped |-> FALSE],
      [int |-> <<5, 0, 0>>, frac |-> <<>>, grouped |-> FALSE],
      [int |-> <<0>>, frac |-> <<2, 5>>, grouped |-> FALSE],
      [int |-> <<1, 2, 3, 4, 5, 6, 7>>, frac |-> <<8, 9>>, grouped |-> TRUE] }

DigitChar == [d \in 0..9 |-> CHOOSE c \in Digits : DigitVal[c] = d]

\* the text of a literal
RenderLiteral(lit) ==
    LET n    == Len(lit.int)
        ints == [i \in 1..n |->
                    IF lit.grouped /\ i > 1 /\ (n - i + 1) % 3 = 0
                    THEN <<",", DigitChar[lit.int[i]]>>
                    ELSE <<DigitChar[lit.int[i]]>>]
        frac == [i \in 1..Len(lit.frac) |-> DigitChar[lit.frac[i]]]
    IN  Join(<<>>, ints) \o (IF frac = <<>> THEN <<>> ELSE <<".">> \o frac)

\* spellings of the magnitude words, with the power of ten each stands for
UnitSpellings ==
    { [word |-> <<"b", "n">>, power |-> 9], [word |-> <<"B", "N">>, power |-> 9],
      [word |-> <<"b", "i", "l", "l", "i", "o", "n">>, power |-> 9], [word |-> <<"B", "i", "l", "l", "i", "o", "n">>, power |-> 9],
      [word |-> <<"m">>, power |-> 6], [word |-> <<"M">>, power |-> 6],
      [word |-> <<"m", "i", "l", "l", "i", "o", "n">>, power |-> 6], [word |-> <<"M", "I", "L", "L", "I", "O", "N">>, power |-> 6],
      [word |-> <<"k">>, power |-> 3], [word |-> <<"K">>, power |-> 3],
      [word |-> <<"t", "h", "o", "u", "s", "a", "n", "d">>, power |-> 3], [word |-> <<"T", "h", "o", "u", "s", "a", "n", "d">>, power |-> 3],
      [word |-> <<>>, power |-> 0] }

CurrencyMarkers == {<<>>, <<"$">>, <<"A", "E", "D", " ">>, <<"U", "S", "$">>}

\* a figure with its decoration: parentheses, currency marker, minus sign,
\* literal, gap and magnitude word
Figures ==
    [wrap : BOOLEAN, marker : CurrencyMarkers, minus : BOOLEAN, lit : Literals,
     gap : {<<>>, <<" ">>}, unit : UnitSpellings]

RenderFigure(f) ==
    (IF f.wrap THEN <<"(">> ELSE <<>>) \o f.marker \o (IF f.minus THEN <<"-">> ELSE <<>>)
    \o RenderLiteral(f.lit)
    \o (IF f.unit.word = <<>> THEN <<>> ELSE f.gap \o f.unit.word)
    \o (IF f.wrap THEN <<")">> ELSE <<>>)

\* the number a figure denotes: the literal, negated by a minus sign, times
\* the power of ten of its magnitude word, the sign flipped by parentheses
FigureValue(f) ==
    Dec(f.minus # f.wrap, f.lit.int \o f.lit.frac, f.unit.power - Len(f.lit.frac))

\* the value of every string that is the text of a figure of the set figs
ValueTable(figs) ==
    LET pairs == {<<RenderFigure(f), FigureValue(f)>> : f \in figs}
    IN  [t \in {q[1] : q \in pairs} |-> (CHOOSE q \in pairs : q[1] = t)[2]]

\* ... of the figures with a magnitude word, and of those without
SuffixValueOf == ValueTable({f \in Figures : f.unit.power > 0})
PlainValueOf == ValueTable({f \in Figures : f.unit.power = 0})

\* strings that are not figures
OtherStrings ==
    { <<"a", "b", "c">>, <<>>, <<" ", " ", " ">>, <<"n", "/", "a">>, <<"N", "e", "t", " ", "p", "r", "o", "f", "i", "t">>, <<"-", "m">>, <<"1", ".", "2", ".", "3", "m">>, <<".", "5", "m">>,
      <<"1", "-", "2", "k">>, <<"(", "-", "5", "0", "0", ")">>, <<"5", " ", "t">>, <<"5", " ", "m", "o", "r", "e">>, <<"2", "0", "2", "3", " ", "m", "a", "r", "k", "e", "t">>, <<"5", "0", "0", " ", "k", "m">> }

NormInputs ==
    {None} \cup {Str(c) : c \in StringsUpTo(NormAlphabet, MaxNormLen)
                              \cup DOMAIN SuffixValueOf \cup DOMAIN PlainValueOf
                              \cup OtherStrings}

InitNorm ==
    /\ s \in NormInputs
    /\ normA = Pending /\ normT = Pending
    /\ IdleFind /\ IdlePct /\ IdleCli /\ IdleApp /\ IdleInfer

NormalizeAgents ==
    /\ pc = "idle" /\ normA = Pending
    /\ normA' = A_normalize_number_str(s)
    /\ UNCHANGED <<s, normT, findVars, pctVars, cliVars, appVars, inferVars>>

NormalizeTools ==
    /\ pc = "idle" /\ normT = Pending
    /\ normT' = T_normalize_number_str(s)
    /\ UNCHANGED <<s, normA, findVars, pctVars, cliVars, appVars, inferVars>>

NextNorm == NormalizeAgents \/ NormalizeTools

SpecNorm == InitNorm /\ [][NextNorm]_vars

\* the argument holds no decimal digit (None included)
NoDigit(arg) == arg = None \/ \A i \in 1..Len(arg.chars) : arg.chars[i] \notin Digits

C4_NeverRaises ==
    /\ normA # Pending => ~IsRaise(normA) /\ (NoDigit(s) => normA = None)
    /\ normT # Pending => ~IsRaise(normT) /\ (NoDigit(s) => normT = None)

\* "-m" holds no digit, its "-" reaches Decimal() in tools/extract_and_calc.py,
\* and both files have returned None
C4_Witness == s = Str(<<"-", "m">>) /\ normA = None /\ normT = None

\* C5: the text of a figure without a magnitude word normalizes to the whole
\* literal, signed, whatever the number of its digits.
C5_WholeLiteral ==
    (s # None /\ s.chars \in DOMAIN PlainValueOf) =>
        /\ normA # Pending => normA = PlainValueOf[s.chars]
        /\ normT # Pending => normT = PlainValueOf[s.chars]

-----------------------------------------------------------------------------
(* calc_pct_change *)

\* the integers -MaxPctInt..MaxPctInt are tried as old and new values
MaxPctInt == 12

PctValues ==
    {DecimalOfInt(n) : n \in (-MaxPctInt)..MaxPctInt}
    \cup { DecimalOfInt(50), DecimalOfInt(100), DecimalOfInt(150),
           DecimalOfInt(-500), DecimalOfInt(750), DecimalOfInt(7895),
           Dec(FALSE, <<7, 8, 9, 5>>, 6), Dec(FALSE, <<9, 1, 2>>, 7),
           Dec(TRUE, <<1, 2, 3, 4, 5>>, 5), Dec(FALSE, <<1, 5>>, -1),
           Dec(FALSE, <<2, 5>>, -2), Dec(TRUE, <<3, 3, 3>>, -3) }

InitPct ==
    /\ old \in PctValues \cup {None}
    /\ new \in PctValues \cup {None}
    /\ pctA = Pending /\ pctT = Pending
    /\ IdleNorm /\ IdleFind /\ IdleCli /\ IdleApp /\ IdleInfer

PctAgents ==
    /\ pc = "idle" /\ pctA = Pending
    /\ pctA' = A_calc_pct_change(old, new)
    /\ UNCHANGED <<old, new, pctT, normVars, findVars, cliVars, appVars, inferVars>>

PctTools ==
    /\ pc = "idle" /\ pctT = Pending
    /\ pctT' = T_calc_pct_change(old, new)
    /\ UNCHANGED <<old, new, pctA, normVars, findVars, cliVars, appVars, inferVars>>

NextPct == PctAgents \/ PctTools

SpecPct == InitPct /\ [][NextPct]_vars

\* the arguments for which the percentage change is undefined
PctUndefined == old = None \/ new = None \/ IsZero(old)

\* what C1 says of one outcome
C1_Holds(r) == ~IsRaise(r) /\ (r = None <=> PctUndefined) /\ (r # None => IsDecimal(r))

\* C1: calc_pct_change raises on no input and returns None exactly when old
\* is None, new is None or old is zero, and a Decimal for every other pair.
C1_NeverRaises ==
    /\ pctA # Pending => C1_Holds(pctA)
    /\ pctT # Pending => C1_Holds(pctT)

\* the exponent of the most significant digit of a nonzero Decimal
Adjusted(d) == d.exp + Len(d.coef) - 1

\* r is the quotient 100 * (n - o) / o at prec significant digits.  When
\* n - o has at most prec digits the subtraction and the multiplication are
\* exact and r is the quotient rounded once:
\*     2 * |r * o - 100 * (n - o)| <= |o| * 10^(Adjusted(r) - prec + 1)
\* When n - o is itself rounded its error of half a unit of its last digit
\* is at most five units of the last digit of r, so twelve half units bound it.
IsRoundedQuotient(r, o, n) ==
    LET diff        == ExactSub(n, o)
        hundredfold == ExactMul(DecimalOfInt(100), diff)
        err         == ExactMul(DecimalOfInt(2), ExactSub(ExactMul(r, o), hundredfold))
        halves      == IF Len(diff.coef) <= prec THEN 1 ELSE 12
        ulp         == Dec(FALSE, <<1>>, Adjusted(r) - prec + 1)
        bound       == ExactMul(ExactMul(o, ulp), DecimalOfInt(halves))
    IN  /\ IsDecimal(r)
        /\ IsZero(r) <=> IsZero(hundredfold)
        /\ ~IsZero(r) => r.neg = (hundredfold.neg # o.neg)
        /\ ~IsZero(r) => Len(r.coef) <= prec /\ CmpAbs(err, bound) <= 0

\* what C2 says of one outcome
C2_Holds(r) ==
    /\ IsRoundedQuotient(r, old, new)
    /\ (old = DecimalOfInt(100) /\ new = DecimalOfInt(150)) => r = DecimalOfInt(50)
    /\ (old = DecimalOfInt(100) /\ new = DecimalOfInt(50)) => r = DecimalOfInt(-50)
    /\ (old = DecimalOfInt(-500) /\ new = DecimalOfInt(750)) => r = DecimalOfInt(-250)

\* C2: for old # 0 the result is (new - old) / old * 100 at 12 significant
\* digits: the exact quotient when it has at most 12 digits, else within half
\* a unit of the twelfth digit of it; 100 -> 150 gives 50, 100 -> 50 gives
\* -50 and -500 -> 750 gives -250.
C2_DecimalQuotient ==
    ~PctUndefined =>
        /\ pctA # Pending => C2_Holds(pctA)
        /\ pctT # Pending => C2_Holds(pctT)

\* 3 -> 4 has given 33.3333333333 in both files, a quotient that is rounded
C2_Witness ==
    /\ old = DecimalOfInt(3) /\ new = DecimalOfInt(4)
    /\ pctA = Dec(FALSE, <<3, 3, 3, 3, 3, 3, 3, 3, 3, 3, 3, 3>>, -10)
    /\ pctT = pctA

-----------------------------------------------------------------------------
(* find_number_in_text *)

\* the most lines a passage built from LineSamples has
MaxLines == 4

\* lines of a report: indented, with a keyword and two figures; with a keyword
\* alone; with a figure alone
LineSamples ==
    { <<" ", "N", "e", "t", " ", "I", "n", "c", "o", "m", "e", " ", "(", "1", ".", "5", "b", "n", ")", " ", "7", " ">>,
      <<"p", "r", "o", "f", "i", "t", " ", "f", "o", "r", " ", "t", "h", "e", " ", "y", "e", "a", "r">>,
      <<"t", "o", "t", "a", "l", " ", "1", ",", "2", "3", "4">> }

\* a passage longer than the context of a global match, without a keyword
LongPassage ==
    [i \in 1..400 |-> <<"a", "s", "s", "e", "t", "s", " ", "1", "2", " ">>[((i - 1) % 10) + 1]]

\* passages with the other cases: the example passages, "\r" between lines,
\* a keyword of one file only, no figure, empty lines, a figure that
\* tools/extract_and_calc.py cannot parse ("1.2.3m")
Passages ==
    { <<"N", "e", "t", " ", "p", "r", "o", "f", "i", "t", " ", "f", "o", "r", " ", "t", "h", "e", " ", "p", "e", "r", "i", "o", "d", " ", "w", "a", "s", " ", "A", "E", "D", " ", "7", ",", "8", "9", "5", " ", "m", "i", "l", "l", "i", "o", "n", ".", "\n", "O", "t", "h", "e", "r", " ", "t", "e", "x", "t", ".">>,
      <<"T", "o", "t", "a", "l", " ", "a", "s", "s", "e", "t", "s", " ", "1", ",", "2", "3", "4">>,
      <<"n", "e", "t", " ", "p", "r", "o", "f", "i", "t", "\r", "w", "a", "s", "\r", "5", "m">>,
      <<"p", "r", "o", "f", "i", "t", " ", "a", "f", "t", "e", "r", " ", "t", "a", "x", " ", "9", "\n", "n", "e", "t", " ", "p", "r", "o", "f", "i", "t", " ", "5">>,
      <<"n", "o", " ", "f", "i", "g", "u", "r", "e", "s", " ", "h", "e", "r", "e">>,
      <<"n", "e", "t", " ", "p", "r", "o", "f", "i", "t", "\n", "\n", "\n", "5", " ", "b", "n">>,
      <<"i", "n", "c", "o", "m", "e", " ", "t", "a", "x", " ", "3", "\n", "\n", "\n", "t", "o", "t", "a", "l", " ", "1", ",", "2", "3", "4", " ", "k">>,
      <<" ", "T", "o", "t", "a", "l", " ", "(", "2", ".", "5", "m", ")", " ", "\n", "n", "e", "t", " ", "p", "r", "o", "f", "i", "t", " ", "5">>,
      <<"n", "e", "t", " ", "p", "r", "o", "f", "i", "t", " ", "1", ".", "2", ".", "3", "m">>,
      <<"n", "e", "t", " ", "p", "r", "o", "f", "i", "t", " ", "1", ".", "2", ".", "3", "m", "\n", "t", "o", "t", "a", "l", " ", "1", ",", "2", "3", "4">>,
      <<"n", "e", "t", " ", "p", "r", "o", "f", "i", "t", " ", "1", ".", "2", ".", "3", "m", "\n", "\n", "\n", "n", "e", "t", " ", "p", "r", "o", "f", "i", "t", " ", "5">>,
      <<"n", "e", "t", " ", "i", "n", "c", "o", "m", "e", " ", "1", ".", "2", ".", "3", "m", "\n", "n", "e", "t", " ", "p", "r", "o", "f", "i", "t", "\n", "\n", "7", " ", "k">>,
      LongPassage }

\* the passages of up to MaxLines lines of LineSamples
BuiltPassages ==
    {Join(<<"\n">>, ls) : ls \in UNION {[1..k -> LineSamples] : k \in 1..MaxLines}}

\* the keywords argument: left out, or a list of the caller
KeywordLists == {None, List(<<<<"t", "o", "t", "a", "l">>, <<"t", "a", "x">>>>)}

\* the words a figure of a passage is followed by, with the power of ten of
\* the complete magnitude words (0 for the others)
FollowingWords ==
    { [word |-> <<"m", "a", "r", "k", "e", "t">>, power |-> 0], [word |-> <<"k", "m">>, power |-> 0],
      [word |-> <<"m", "o", "r", "e">>, power |-> 0], [word |-> <<"m", "o", "n", "t", "h", "s">>, power |-> 0],
      [word |-> <<"t", "h", "o", "u", "s", "a", "n", "d", "s">>, power |-> 0], [word |-> <<"b", "r", "a", "n", "c", "h", "e", "s">>, power |-> 0],
      [word |-> <<"s", "t", "a", "f", "f">>, power |-> 0],
      [word |-> <<"m">>, power |-> 6], [word |-> <<"m", "i", "l", "l", "i", "o", "n">>, power |-> 6],
      [word |-> <<"k">>, power |-> 3], [word |-> <<"t", "h", "o", "u", "s", "a", "n", "d">>, power |-> 3],
      [word |-> <<"b", "n">>, power |-> 9], [word |-> <<"b", "i", "l", "l", "i", "o", "n">>, power |-> 9] }

\* a figure in running text: after a keyword or not, the literal, a space,
\* the following word and the end of the sentence
FollowedFigures ==
    [lead : {<<>>, <<"n", "e", "t", " ", "p", "r", "o", "f", "i", "t", " ">>},
     lit  : {[int |-> <<2, 0, 2, 3>>, frac |-> <<>>, grouped |-> FALSE],
             [int |-> <<5, 0, 0>>, frac |-> <<>>, grouped |-> FALSE],
             [int |-> <<5>>, frac |-> <<>>, grouped |-> FALSE],
             [int |-> <<1>>, frac |-> <<5>>, grouped |-> FALSE]},
     word : FollowingWords,
     tail : {<<>>, <<".">>, <<" ", "o", "f", " ", "i", "t">>}]

RenderFollowed(c) == c.lead \o RenderLiteral(c.lit) \o <<" ">> \o c.word.word \o c.tail

FollowedPassages == {RenderFollowed(c) : c \in FollowedFigures}

\* the built passages and the figures in running text are searched with the
\* default keywords, the others with every keyword list
InitFind ==
    /\ \/ text \in BuiltPassages /\ keywords = None
       \/ text \in FollowedPassages /\ keywords = None
       \/ text \in Passages /\ keywords \in KeywordLists
    /\ findA = Pending /\ findT = Pending
    /\ IdleNorm /\ IdlePct /\ IdleCli /\ IdleApp /\ IdleInfer

FindAgents ==
    /\ pc = "idle" /\ findA = Pending
    /\ findA' = A_find_number_in_text(text, keywords)
    /\ UNCHANGED <<text, keywords, findT, normVars, pctVars, cliVars, appVars, inferVars>>

FindTools ==
    /\ pc = "idle" /\ findT = Pending
    /\ findT' = T_find_number_in_text(text, keywords)
    /\ UNCHANGED <<text, keywords, findA, normVars, pctVars, cliVars, appVars, inferVars>>

NextFind == FindAgents \/ FindTools

SpecFind == InitFind /\ [][NextFind]_vars

\* the keywords the call searches for in the file eng
KeywordsOf(eng) ==
    IF keywords # None THEN keywords.items
    ELSE IF eng = "agents" THEN A_DefaultKeywords ELSE T_DefaultKeywords

\* some keyword occurs in the line, whatever the letter case
MatchesKeyword(eng, line) ==
    \E k \in 1..Len(KeywordsOf(eng)) : KeywordSearch(KeywordsOf(eng)[k], line)

\* line i and the next two lines, as far as they exist, joined by spaces
ThreeLines(lines, i) ==
    lines[i] \o (IF i + 1 <= Len(lines) THEN <<" ">> \o lines[i + 1] ELSE <<>>)
             \o (IF i + 2 <= Len(lines) THEN <<" ">> \o lines[i + 2] ELSE <<>>)

\* the numeric tokens of str that normalize, from left to right
NormalizableTokens(eng, str) ==
    SelectSeq(FindAll(str), LAMBDA t : Normalize(eng, t) # None)

\* the keyword lines whose window holds a numeric token
TokenLines(eng) ==
    LET lines == SplitLines(text)
    IN  {i \in 1..Len(lines) : /\ MatchesKeyword(eng, lines[i])
                               /\ FindAll(ThreeLines(lines, i)) # <<>>}

\* the keyword lines whose window holds a numeric token that normalizes
ValueLines(eng) ==
    LET lines == SplitLines(text)
    IN  {i \in 1..Len(lines) : /\ MatchesKeyword(eng, lines[i])
                               /\ NormalizableTokens(eng, ThreeLines(lines, i)) # <<>>}

\* r is the first normalizable token of the window of line i, found there;
\* ctx is the context it has to carry
IsWindowResult(eng, r, i, ctx) ==
    LET toks == NormalizableTokens(eng, ThreeLines(SplitLines(text), i))
    IN  /\ r # None /\ toks # <<>>
        /\ r.matched_text = toks[1]
        /\ r.value = Normalize(eng, toks[1])
        /\ "line_index" \in DOMAIN r /\ r.line_index = i - 1
        /\ r.context = ctx

ExamplePassage == <<"N", "e", "t", " ", "p", "r", "o", "f", "i", "t", " ", "f", "o", "r", " ", "t", "h", "e", " ", "p", "e", "r", "i", "o", "d", " ", "w", "a", "s", " ", "A", "E", "D", " ", "7", ",", "8", "9", "5", " ", "m", "i", "l", "l", "i", "o", "n", ".", "\n", "O", "t", "h", "e", "r", " ", "t", "e", "x", "t", ".">>

\* what the example of C6 says of one outcome
C6_Example(r) ==
    (text = ExamplePassage /\ keywords = None) =>
        r # None /\ r.value = Dec(FALSE, <<7, 8, 9, 5>>, 6) /\ r.line_index = 0

\* C6 as stated: the lowest-indexed keyword line whose window holds a numeric
\* token decides; the result is the first normalizable token of that window,
\* line_index is that line's index and context is that window unchanged.
C6_WindowAsIs ==
    \A eng \in {"agents", "tools"} :
        LET r  == IF eng = "agents" THEN findA ELSE findT
            tl == TokenLines(eng)
            i  == Min(tl)
        IN  (r # Pending /\ tl # {}) =>
                /\ IsWindowResult(eng, r, i, ThreeLines(SplitLines(text), i))
                /\ C6_Example(r)

\* C6, amended: the lowest-indexed keyword line whose window (the line and
\* the next two, joined by spaces) holds a token that normalizes decides; the
\* result is the first normalizable token of that window, line_index is that
\* line's index and context is that window without its leading and trailing
\* whitespace.  No token of a later line is taken.  The example passage gives
\* 7895000000 at line_index 0.
C6_WindowStripped ==
    \A eng \in {"agents", "tools"} :
        LET r  == IF eng = "agents" THEN findA ELSE findT
            vl == ValueLines(eng)
            i  == Min(vl)
        IN  (r # Pending /\ vl # {}) =>
                /\ IsWindowResult(eng, r, i, Strip(ThreeLines(SplitLines(text), i)))
                /\ C6_Example(r)

\* the example passage has given 7895000000 at line 0 in both files
C6_Witness ==
    /\ text = ExamplePassage /\ keywords = None
    /\ findA # Pending /\ findA # None /\ findT # Pending /\ findT # None
    /\ findA.value = Dec(FALSE, <<7, 8, 9, 5>>, 6) /\ findA.line_index = 0
    /\ findT.value = Dec(FALSE, <<7, 8, 9, 5>>, 6) /\ findT.line_index = 0

\* what C7 says of one outcome
C7_Holds(eng, r) ==
    LET toks == NormalizableTokens(eng, text)
        vl   == ValueLines(eng)
    IN  /\ vl = {} =>
              IF toks = <<>> THEN r = None
              ELSE /\ r # None
                   /\ r.matched_text = toks[1]
                   /\ r.value = Normalize(eng, toks[1])
                   /\ r.context = SubSeq(text, 1, Min({Len(text), 300}))
                   /\ "line_index" \notin DOMAIN r
        /\ r # None => ("line_index" \in DOMAIN r <=> vl # {})

\* C7: when no keyword line's window gives a value the result is the first
\* normalizable token of the whole text, with the first 300 characters of
\* the text as context and no line_index (None when no token normalizes); a
\* result has a line_index exactly when a keyword window gave it.
C7_GlobalScan ==
    /\ findA # Pending => C7_Holds("agents", findA)
    /\ findT # Pending => C7_Holds("tools", findT)

\* the passage longer than 300 characters has been cut to 300 in the context
\* of both results, which have no line_index
C7_Witness ==
    /\ text = LongPassage
    /\ findA # Pending /\ findA # None /\ findT # Pending /\ findT # None
    /\ Len(findA.context) = 300 /\ Len(findT.context) = 300
    /\ "line_index" \notin DOMAIN findA /\ "line_index" \notin DOMAIN findT

-----------------------------------------------------------------------------
(* The __main__ block of tools/extract_and_calc.py, run with both arguments *)
(* and an existing Chroma directory.                                        *)

\* the most documents the search leaves for one side
MaxDocs == 2

\* a chunk whose keyword line comes after NoLineIndexScore empty lines
DeepChunk == [i \in 1..NoLineIndexScore |-> "\n"] \o <<"n", "e", "t", " ", "p", "r", "o", "f", "i", "t", " ", "3">>

\* the store: the text of each document, by its source
db ==
    [first_line  |-> <<"N", "e", "t", " ", "p", "r", "o", "f", "i", "t", " ", "5">>,
     second_line |-> <<"G", "r", "o", "u", "p", " ", "r", "e", "s", "u", "l", "t", "s", "\n", "n", "e", "t", " ", "p", "r", "o", "f", "i", "t", " ", "7", " ", "m">>,
     zero        |-> <<"n", "e", "t", " ", "i", "n", "c", "o", "m", "e", " ", "0">>,
     third       |-> <<"p", "r", "o", "f", "i", "t", " ", "f", "o", "r", " ", "t", "h", "e", " ", "y", "e", "a", "r", " ", "3">>,
     no_keyword  |-> <<"t", "o", "t", "a", "l", " ", "9">>,
     no_figure   |-> <<"n", "o", " ", "f", "i", "g", "u", "r", "e", "s", " ", "h", "e", "r", "e">>,
     deep        |-> DeepChunk]

\* the documents the source filter can leave on each side
FromSources == {"first_line", "second_line", "zero", "no_keyword", "no_figure", "deep"}

ToSources == {"second_line", "third", "no_figure"}

\* the lists of at most n of the documents S
DocLists(S, n) == UNION {[1..k -> S] : k \in 0..n}

InitCli ==
    /\ from_docs \in DocLists(FromSources, MaxDocs)
    /\ to_docs \in DocLists(ToSources, MaxDocs)
    /\ from_results = <<>> /\ to_results = <<>>
    /\ from_best = None /\ to_best = None
    /\ pct = Pending /\ yoy = Pending /\ exit_code = Pending
    /\ pc = "load_from"
    /\ IdleNorm /\ IdleFind /\ IdlePct /\ IdleApp /\ IdleInfer

\* from_results = load_db_and_extract(sources_filter=[from_sub], k=12)
LoadFrom ==
    /\ pc = "load_from"
    /\ from_results' = load_db_and_extract(db, from_docs)
    /\ pc' = "load_to"
    /\ UNCHANGED <<from_docs, to_docs, to_results, from_best, to_best, pct, yoy,
                   exit_code, normVars, findVars, pctVars,
                   appVars, inferVars>>

\* to_results = load_db_and_extract(sources_filter=[to_sub], k=12)
LoadTo ==
    /\ pc = "load_to"
    /\ to_results' = load_db_and_extract(db, to_docs)
    /\ pc' = "choose_from"
    /\ UNCHANGED <<from_docs, to_docs, from_results, from_best, to_best, pct, yoy,
                   exit_code, normVars, findVars, pctVars,
                   appVars, inferVars>>

ChooseFrom ==
    /\ pc = "choose_from"
    /\ from_best' = choose_best_extract(from_results)
    /\ pc' = "choose_to"
    /\ UNCHANGED <<from_docs, to_docs, from_results, to_results, to_best, pct, yoy,
                   exit_code, normVars, findVars, pctVars,
                   appVars, inferVars>>

ChooseTo ==
    /\ pc = "choose_to"
    /\ to_best' = choose_best_extract(to_results)
    /\ pc' = "check"
    /\ UNCHANGED <<from_docs, to_docs, from_results, to_results, from_best, pct, yoy,
                   exit_code, normVars, findVars, pctVars,
                   appVars, inferVars>>

\* if (not from_best) or (not to_best): ... sys.exit(1)
NoExtract ==
    /\ pc = "check"
    /\ from_best = None \/ to_best = None
    /\ exit_code' = 1
    /\ pc' = "done"
    /\ UNCHANGED <<from_docs, to_docs, from_results, to_results, from_best, to_best,
                   pct, yoy, normVars, findVars, pctVars,
                   appVars, inferVars>>

\* pct = calc_pct_change(old_val, new_val)
Calc ==
    /\ pc = "check"
    /\ from_best # None /\ to_best # None
    /\ pct' = T_calc_pct_change(from_best.extract.value, to_best.extract.value)
    /\ pc' = "print"
    /\ UNCHANGED <<from_docs, to_docs, from_results, to_results, from_best, to_best,
                   yoy, exit_code, normVars, findVars, pctVars,
                   appVars, inferVars>>

\* print(f"YoY % change = {pct:.6f}%"), the citations, and the end of the run
PrintResult ==
    /\ pc = "print"
    /\ pct # None
    /\ yoy' = FormatFixed(pct, YoyPlaces)
    /\ exit_code' = 0
    /\ pc' = "done"
    /\ UNCHANGED <<from_docs, to_docs, from_results, to_results, from_best, to_best,
                   pct, normVars, findVars, pctVars,
                   appVars, inferVars>>

\* {pct:.6f} for pct = None raises TypeError, which nothing catches: the
\* interpreter prints the traceback and exits with status 1
PrintRaises ==
    /\ pc = "print"
    /\ pct = None
    /\ yoy' = Raised("TypeError")
    /\ exit_code' = 1
    /\ pc' = "done"
    /\ UNCHANGED <<from_docs, to_docs, from_results, to_results, from_best, to_best,
                   pct, normVars, findVars, pctVars,
                   appVars, inferVars>>

NextCli ==
    \/ LoadFrom \/ LoadTo \/ ChooseFrom \/ ChooseTo
    \/ NoExtract \/ Calc \/ PrintResult \/ PrintRaises

SpecCli == InitCli /\ [][NextCli]_vars

\* both choices have been made
Chosen == pc \in {"check", "print", "done"}

\* the positions of the candidates that have an extraction
WithExtract(results) == {i \in 1..Len(results) : results[i].extract # None}

\* the score C8 gives the candidate: its line_index, or 1000 without one
ScoreOf(r) ==
    IF "line_index" \in DOMAIN r.extract THEN r.extract.line_index ELSE 1000

\* what C8 says of one call
C8_Holds(results, best) ==
    LET ok     == WithExtract(results)
        least  == Min({ScoreOf(results[i]) : i \in ok})
    IN  IF ok = {} THEN best = None
        ELSE best = results[Min({i \in ok : ScoreOf(results[i]) = least})]

\* C8: choose_best_extract returns, of the candidates that have an
\* extraction, the first in input order among those of the least score
\* (line_index, or 1000 without one), and None when no candidate has one.
C8_LeastScoreFirst ==
    Chosen => C8_Holds(from_results, from_best) /\ C8_Holds(to_results, to_best)

\* two candidates with line_index 0 were offered, the first was chosen, and
\* the other side had no candidate at all
C8_Witness ==
    /\ Chosen
    /\ from_docs = <<"zero", "first_line">>
    /\ from_results[1].extract.line_index = 0
    /\ from_results[2].extract.line_index = 0
    /\ from_best = from_results[1] /\ from_best # from_results[2]
    /\ to_results = <<>> /\ to_best = None

\* the candidates taken from a keyword window
FromWindow(results) ==
    {i \in WithExtract(results) : "line_index" \in DOMAIN results[i].extract}

\* what C9 says of one call
C9_Holds(results, best) ==
    FromWindow(results) # {} => best # None /\ "line_index" \in DOMAIN best.extract

C10_ExitCodes ==
    (pc = "done") =>
        IF WithExtract(from_results) = {} \/ WithExtract(to_results) = {}
        THEN exit_code = 1
        ELSE exit_code = 0 /\ yoy = FormatFixed(pct, YoyPlaces)

-----------------------------------------------------------------------------
(* app.py: run_query, with the reports of agents/reporting_agent.py *)

\* lines 21-26: the extraction of the first document that has one
RECURSIVE FirstExtract(_, _, _), Kept(_, _, _, _)
FirstExtract(store, docs, i) ==
    IF i > Len(docs) THEN None
    ELSE Kept(store, docs, i, A_find_number_in_text(store[docs[i]], None))

\* the body of the loop for document i, whose extraction is ex
Kept(store, docs, i, ex) ==
    IF ex # None
    THEN [kind |-> "dict", value |-> ex.value, context |-> ex.context, source |-> docs[i]]
    ELSE FirstExtract(store, docs, i + 1)

\* line 39
NumericTrace(from_value, to_value, pct_change) ==
    [from_value |-> PyStr(from_value), to_value |-> PyStr(to_value),
     pct_change |-> PyStr(pct_change)]

\* lines 40-43
Citations(from, to) ==
    <<[source |-> from.source, context |-> from.context],
      [source |-> to.source, context |-> to.context]>>

\* the documents the from side is retrieved from
AppFromSources == {"first_line", "zero", "no_figure"}

\* ... for the to side: none, one with a figure, one without before it
AppToLists == {<<>>, <<"second_line">>, <<"no_figure", "second_line">>}

\* text an LLM answers with
LlmText == Str(<<"T", "h", "e", " ", "m", "e", "t", "r", "i", "c", " ", "r", "o", "s", "e", ".">>)

\* what the call to the LLM does: it raises, or it returns an object with a
\* result or text attribute (None when every candidate was blocked), a dict
\* with candidates or text, or something else
Replies ==
    { Raised("TimeoutError"),
      [kind |-> "object", result |-> LlmText],
      [kind |-> "object", result |-> None],
      [kind |-> "object", text |-> LlmText],
      [kind |-> "object"],
      [kind |-> "dict", candidates |-> <<[kind |-> "dict", content |-> LlmText]>>],
      [kind |-> "dict", candidates |-> <<[kind |-> "dict"]>>],
      [kind |-> "dict", candidates |-> <<LlmText>>],
      [kind |-> "dict", candidates |-> <<>>],
      [kind |-> "dict", text |-> LlmText],
      [kind |-> "dict", text |-> Str(<<>>)],
      [kind |-> "dict"] }

\* the generate_text, Completion.create and chat entry points genai may have
EntryPoints ==
    { {}, {"generate_text"}, {"Completion"}, {"chat"},
      {"generate_text", "Completion", "chat"} }

\* genai after the import at lines 4-11: None when the import failed
Libraries ==
    {None} \cup {[kind |-> "module", has |-> h, reply |-> r] : h \in EntryPoints, r \in Replies}

InitApp ==
    /\ from_docs \in DocLists(AppFromSources, MaxDocs)
    /\ to_docs \in AppToLists
    /\ genai \in Libraries
    /\ from_ex = None /\ to_ex = None
    /\ answer = Pending /\ llm_calls = 0
    /\ pct = Pending
    /\ pc = "extract_from"
    /\ from_results = <<>> /\ to_results = <<>>
    /\ from_best = None /\ to_best = None
    /\ yoy = Pending /\ exit_code = Pending
    /\ IdleNorm /\ IdleFind /\ IdlePct /\ IdleInfer

\* lines 21-26
ExtractFrom ==
    /\ pc = "extract_from"
    /\ from_ex' = FirstExtract(db, from_docs, 1)
    /\ pc' = "extract_to"
    /\ UNCHANGED <<from_docs, to_docs, from_results, to_results, from_best, to_best,
                   pct, yoy, exit_code, to_ex, genai, answer, llm_calls,
                   normVars, findVars, pctVars, inferVars>>

\* lines 28-33
ExtractTo ==
    /\ pc = "extract_to"
    /\ to_ex' = FirstExtract(db, to_docs, 1)
    /\ pc' = "analyse"
    /\ UNCHANGED <<from_docs, to_docs, from_results, to_results, from_best, to_best,
                   pct, yoy, exit_code, from_ex, genai, answer, llm_calls,
                   normVars, findVars, pctVars, inferVars>>

\* lines 35-36: return "Could not extract both numbers. ...", "", ""
CouldNotExtract ==
    /\ pc = "analyse"
    /\ from_ex = None \/ to_ex = None
    /\ pc' = "could_not_extract"
    /\ UNCHANGED <<from_docs, to_docs, from_results, to_results, from_best, to_best,
                   pct, yoy, exit_code, from_ex, to_ex, genai, answer, llm_calls,
                   normVars, findVars, pctVars, inferVars>>

\* line 38
Analyse ==
    /\ pc = "analyse"
    /\ from_ex # None /\ to_ex # None
    /\ pct' = A_calc_pct_change(from_ex.value, to_ex.value)
    /\ pc' = "report"
    /\ UNCHANGED <<from_docs, to_docs, from_results, to_results, from_best, to_best,
                   yoy, exit_code, from_ex, to_ex, genai, answer, llm_calls,
                   normVars, findVars, pctVars, inferVars>>

\* the report out of generate_report is handed to the caller
Hand(out) == answer' = out.value /\ llm_calls' = out.calls

\* lines 39-47
Report ==
    /\ pc = "report"
    /\ Hand(generate_report(genai, NumericTrace(from_ex.value, to_ex.value, pct),
                            Citations(from_ex, to_ex)))
    /\ pc' = "returned"
    /\ UNCHANGED <<from_docs, to_docs, from_results, to_results, from_best, to_best,
                   pct, yoy, exit_code, from_ex, to_ex, genai,
                   normVars, findVars, pctVars, inferVars>>

NextApp == ExtractFrom \/ ExtractTo \/ CouldNotExtract \/ Analyse \/ Report

SpecApp == InitApp /\ [][NextApp]_vars

\* the entry point generate_report calls: the first one genai has
Called(lib) ==
    IF lib = None THEN "none"
    ELSE IF "generate_text" \in lib.has THEN "generate_text"
    ELSE IF "Completion" \in lib.has THEN "Completion"
    ELSE IF "chat" \in lib.has THEN "chat"
    ELSE "none"

\* the reply carries an answer where the entry point called puts it
CarriesAnswer(api, reply) ==
    \/ api = "generate_text" /\ reply.kind = "object"
         /\ "result" \in DOMAIN reply /\ reply.result = LlmText
    \/ api = "generate_text" /\ reply.kind = "dict" /\ "candidates" \in DOMAIN reply
         /\ reply.candidates = <<[kind |-> "dict", content |-> LlmText]>>
    \/ api = "Completion" /\ "text" \in DOMAIN reply /\ reply.text = LlmText
    \/ api = "chat" /\ ~IsRaise(reply)

\* the LLM collaborator failed: no library or entry point, an exception
\* during the call, or a reply without an answer
LlmFailed(lib) == Called(lib) = "none" \/ ~CarriesAnswer(Called(lib), lib.reply)

\* the fallback report for the figures and citations of this run
ThisFallback ==
    FallbackReport(NumericTrace(from_ex.value, to_ex.value, pct), Citations(from_ex, to_ex))

\* C11: when generate_report has returned, it made at most one LLM call, it
\* raised nothing, and after every failure of the LLM (library unavailable,
\* exception during the call, malformed response) what it returned is the
\* deterministic fallback report.
C11_FailureFallsBack ==
    (pc = "returned") =>
        /\ llm_calls <= 1
        /\ ~IsRaise(answer)
        /\ LlmFailed(genai) => answer = ThisFallback

\* the "could not compute" line of the fallback report
CouldNotCompute == Line("Could not compute numeric summary from inputs.", None)

\* C12: a fallback report for an absent percentage change (from value zero)
\* says that no numeric summary could be computed, has no Change line, and
\* lists every citation.
C12_NoSummaryStated ==
    (pc = "returned" /\ pct = None /\ answer = ThisFallback) =>
        /\ \E i \in 1..Len(answer.lines) : answer.lines[i] = CouldNotCompute
        /\ \A i \in 1..Len(answer.lines) : answer.lines[i].label # "- Change:     "
        /\ \A c \in {from_ex, to_ex} :
              \E i \in 1..Len(answer.lines) :
                  answer.lines[i] = Line("- ", [source |-> c.source, context |-> c.context])

-----------------------------------------------------------------------------
(* infer_year_quarter_from_source *)

\* the parts source identifiers are put together from
SourcePrefixes == {<<>>, <<"F", "A", "B", "_">>, <<"f", "a", "b", " ">>}

QuarterTokens == {<<>>, <<"Q", "3">>, <<"q", "1">>, <<"Q", "5">>, <<"Q", "1", "2">>}

SourceSeparators == {<<"_">>, <<"-">>, <<" ">>, <<".">>}

YearTokens == {<<"2", "0", "2", "4">>, <<"1", "9", "9", "9">>, <<"2", "0", "x", "4">>, <<"1", "2", "0", "2", "3">>}

SourceTails ==
    {<<>>, <<"_", "E", "a", "r", "n", "i", "n", "g", "s", ".", "p", "d", "f">>, <<"_", "m", "a", "r", "c", "h", ".", "p", "d", "f">>, <<"-", "s", "e", "p", "t">>, <<" ", "d", "e", "c", "e", "m", "b", "e", "r", " ", "s", "u", "m", "m", "a", "r", "y">>, <<"_", "j", "u", "n", "_", "m", "a", "r">>}

Sources ==
    {p \o q \o sep \o y \o tail :
        p \in SourcePrefixes, q \in QuarterTokens, sep \in SourceSeparators,
        y \in YearTokens, tail \in SourceTails}

InitInfer ==
    /\ source \in Sources
    /\ inferred = Pending
    /\ IdleNorm /\ IdleFind /\ IdlePct /\ IdleCli /\ IdleApp

Infer ==
    /\ inferred = Pending /\ source # <<>>
    /\ inferred' = infer_year_quarter_from_source(source)
    /\ UNCHANGED <<source, normVars, findVars, pctVars, cliVars, appVars>>

NextInfer == Infer

SpecInfer == InitInfer /\ [][NextInfer]_vars

\* the year C13 describes: the first 20dd anywhere in the identifier
C13_Year(str) ==
    LET at == {i \in 1..(Len(str) - 3) :
                 /\ str[i] = "2" /\ str[i + 1] = "0"
                 /\ str[i + 2] \in Digits /\ str[i + 3] \in Digits}
    IN  IF at = {} THEN None
        ELSE PyInt(IntOfDigits(SubSeq(str, Min(at), Min(at) + 3)))

\* the quarter C13 describes: the first Q or q followed by 1..4, wherever it
\* sits; without one the first month of the table that occurs; else None
C13_Quarter(str) ==
    LET at   == {i \in 1..(Len(str) - 1) :
                   str[i] \in {"q", "Q"} /\ str[i + 1] \in {"1", "2", "3", "4"}}
        mons == {k \in 1..Len(Months) : Contains(Lower(str), Months[k].mon)}
    IN  IF at # {} THEN Str(<<"Q", str[Min(at) + 1]>>)
        ELSE IF mons # {} THEN Str(Months[Min(mons)].qv)
        ELSE None

\* C13: the year is the first 20dd of the identifier, the quarter is Qn for
\* the first Q followed by a digit 1..4 in any letter case and position
\* ("FAB_Q3_2024_Earnings.pdf" gives Q3), else the first month of the table
\* that occurs in it, else absent.
C13_YearAndQuarter ==
    inferred # Pending =>
        /\ inferred.year = C13_Year(source)
        /\ inferred.quarter = C13_Quarter(source)
        /\ source = <<"F", "A", "B", "_", "Q", "3", "_", "2", "0", "2", "4", "_", "E", "a", "r", "n", "i", "n", "g", "s", ".", "p", "d", "f">> => inferred.quarter = Str(<<"Q", "3">>)

\* the string is wrapped in parentheses and holds a digit between them
WrappedNumber(arg) ==
    /\ arg # None
    /\ StartsWith(Strip(arg.chars), "(") /\ EndsWith(Strip(arg.chars), ")")
    /\ \E i \in 1..Len(arg.chars) : arg.chars[i] \in Digits

\* the outcome is a Decimal that is negative or zero
NotPositive(r) == r # None /\ ~IsRaise(r) /\ (r.neg \/ IsZero(r))

\* C14: for a string wrapped in parentheses with a number inside, "(-500)"
\* included, normalize_number_str gives a value that is negative or zero,
\* in both files.
C14_ParenthesisedNotPositive ==
    WrappedNumber(s) =>
        /\ normA # Pending => NotPositive(normA)
        /\ normT # Pending => NotPositive(normT)

-----------------------------------------------------------------------------
(* the magnitude of a figure in running text *)

\* the number the literal of c denotes, times the power of ten when scaled
FollowedValue(c, scaled) ==
    Dec(FALSE, c.lit.int \o c.lit.frac,
        (IF scaled THEN c.word.power ELSE 0) - Len(c.lit.frac))

\* C15: find_number_in_text of agents/analysis_agent.py multiplies a number
\* by a magnitude only when a complete magnitude word ending at a word
\* boundary of the text follows it: a number followed by another word
\* ("2023 market", "500 km", "5 more") is returned unscaled.
C15_ScaledByWholeWordOnly ==
    \A c \in FollowedFigures :
        (text = RenderFollowed(c) /\ findA # Pending /\ c.word.power = 0) =>
            findA # None /\ findA.value = FollowedValue(c, FALSE)


-----------------------------------------------------------------------------
(* the order of the keywords *)

\* the lines that keyword k of the list matches and whose window holds a
\* token that normalizes
KeywordLines(eng, k) ==
    LET lines == SplitLines(text)
    IN  {i \in 1..Len(lines) :
            /\ KeywordSearch(KeywordsOf(eng)[k], lines[i])
            /\ NormalizableTokens(eng, ThreeLines(lines, i)) # <<>>}

\* the keywords of the list that have such a line
KeywordsWithValue(eng) ==
    {k \in 1..Len(KeywordsOf(eng)) : KeywordLines(eng, k) # {}}

\* what C16 says of one outcome: the extraction is that of the first line of
\* the earliest-listed keyword that has one
C16_Holds(eng, r) ==
    KeywordsWithValue(eng) # {} =>
        IsWindowResult(eng, r, Min(KeywordLines(eng, Min(KeywordsWithValue(eng)))),
                       Strip(ThreeLines(SplitLines(text),
                                        Min(KeywordLines(eng, Min(KeywordsWithValue(eng)))))))

\* C16: the keyword list is an ordered priority: when an earlier-listed and a
\* later-listed keyword match on different lines, each with a number in its
\* window, the extraction of the earlier-listed keyword is returned.
C16_EarlierKeywordWins ==
    /\ findA # Pending => C16_Holds("agents", findA)
    /\ findT # Pending => C16_Holds("tools", findT)

-----------------------------------------------------------------------------
(* a text with a digit gives a value *)

HasDigit(str) == \E i \in 1..Len(str) : str[i] \in Digits

\* C17: in agents/analysis_agent.py every token of the token grammar
\* normalizes to a Decimal, so find_number_in_text returns None exactly when
\* the text holds no decimal digit, and otherwise a result whose value is a
\* Decimal.
C17_DigitGivesValue ==
    findA # Pending =>
        /\ \A j \in 1..Len(FindAll(text)) :
               IsDecimal(A_normalize_number_str(Str(FindAll(text)[j])))
        /\ findA = None <=> ~HasDigit(text)
        /\ findA # None => IsDecimal(findA.value)

\* "1.2.3m", which tools/extract_and_calc.py cannot parse, has given 2300000
C17_Witness ==
    /\ text = <<"n", "e", "t", " ", "p", "r", "o", "f", "i", "t", " ", "1", ".", "2", ".", "3", "m">> /\ HasDigit(text)
    /\ findA # Pending /\ findA # None
    /\ findA.value = Dec(FALSE, <<2, 3>>, 5)
    /\ findT = None

=============================================================================
